---- MODULE Spec2Model ----
(***************************************************************************)
(* A model of the keygen-go client core: Client.send (the response         *)
(* classification pipeline), Response.tldr (the body preview),             *)
(* License.Validate (the validation-result interpreter), License.Verify    *)
(* and the setters of License (SetID, SetType, SetData, SetRelationships). *)
(*                                                                         *)
(* Byte strings that the code inspects byte by byte (response bodies, the  *)
(* numeric rate-limit headers) are sequences of one-character strings.     *)
(* Opaque strings (codes, ids, keys) are TLA+ strings.  A Go error value   *)
(* is a record with a "kind" field; the nil error is NoError.              *)
(*                                                                         *)
(* Client.send blocks in client.Do and in ioutil.ReadAll.  A call is two   *)
(* steps: the one that builds the request and hands it to the transport,   *)
(* and the one in which the transport has answered and the rest of the     *)
(* call runs.  Between the two the call is counted in "waiting", and other *)
(* calls, on the same License too, take their steps.  Between Do and       *)
(* ReadAll the call touches nothing but its own locals, so the two waits   *)
(* are one wait here.  The variables op .. calls hold the outcome of the   *)
(* call that completed last, until its caller drops it.                    *)
(***************************************************************************)
EXTENDS Integers, Sequences, FiniteSets

VARIABLES
    PublicKey,  \* the package-level PublicKey the clients and verifiers are built from
    license,    \* the receiver of License.Validate / License.Verify
    op,         \* the call that completed last: "idle" when its outcome was dropped
    exchange,   \* the exchange the transport and the decoder answered the call with
    response,   \* the *Response handed back by Client.send
    err,        \* the error handed back by the call
    model,      \* the caller's model after Client.send
    payload,    \* the payload handed back by License.Verify
    calls,      \* the collaborators the call invoked, in order
    waiting     \* per kind of call, the calls blocked in client.Do / ioutil.ReadAll

vars == <<PublicKey, license, op, exchange, response, err, model, payload, calls, waiting>>

(***************************************************************************)
(* Bounds of the model.                                                    *)
(***************************************************************************)
\* the longest list of problems a decoded envelope reports
MaxProblems == 2
\* response bodies up to this length are enumerated over the whole alphabet
MaxShort == 2
\* the longest body is this many bytes longer than the preview cap
MaxOver == 2
\* the densest line-feed pattern of a long body: one line feed every 1..MaxPeriod bytes
MaxPeriod == 3
\* the most calls that wait for the transport at one time
MaxInFlight == 1

(***************************************************************************)
(* Program constants.                                                      *)
(***************************************************************************)
TldrCap == 500
StatusNoContent == 204
StatusForbidden == 403
StatusTooManyRequests == 429
StatusInternalServerError == 500

LF == "\n"
Ellipsis == <<".", ".", ".">>
EscapedLF == <<"\\", "n">>

\* nil pointers and zero values
Nil == [kind |-> "nil"]
NoError == [kind |-> "nil"]
ZeroTime == [kind |-> "zero-time"]

(***************************************************************************)
(* Response.tldr                                                           *)
(***************************************************************************)
\* strings.Replace with a count of 1: only the first line feed is replaced
RECURSIVE ReplaceLF_first(_)
ReplaceLF_first(s) ==
    IF Len(s) = 0 THEN <<>>
    ELSE IF s[1] = LF THEN EscapedLF \o Tail(s)
    ELSE <<s[1]>> \o ReplaceLF_first(Tail(s))

\* strings.Replace(s, "\n", "\\n", -1): every line feed becomes backslash, n.
\* The pattern is one byte long, so replacing in the two halves and joining
\* them is replacing in the whole.
RECURSIVE ReplaceLF(_)
ReplaceLF(s) ==
    IF Len(s) = 0 THEN <<>>
    ELSE IF Len(s) = 1 THEN (IF s[1] = LF THEN EscapedLF ELSE s)
    ELSE LET h == Len(s) \div 2
         IN  ReplaceLF(SubSeq(s, 1, h)) \o ReplaceLF(SubSeq(s, h + 1, Len(s)))

\* Truncate keeping one byte more than the cap
Truncate_oneMore(body) ==
    IF Len(body) > TldrCap THEN SubSeq(body, 1, TldrCap + 1) \o Ellipsis ELSE body

\* tldr[0:500] + "..." when the body is longer than 500 bytes
Truncate(body) ==
    IF Len(body) > TldrCap THEN SubSeq(body, 1, TldrCap) \o Ellipsis ELSE body

tldr(r) == ReplaceLF(Truncate(r.Body))

(***************************************************************************)
(* strconv.Atoi / strconv.ParseInt(s, 10, 64) on a header value, with int  *)
(* 64 bits wide.  The result is [ok, n]; ok = FALSE models the returned    *)
(* error: ErrSyntax for an empty value, a lone sign or a byte that is not  *)
(* a digit, ErrRange for a value outside -2^63 .. 2^63 - 1.  The range is  *)
(* decided on the digits, as the Go loop decides it before the value       *)
(* wraps; the value is computed only for a value in range.                 *)
(***************************************************************************)
Digits == <<"0", "1", "2", "3", "4", "5", "6", "7", "8", "9">>

IsDigit(ch) == \E d \in 1..10 : Digits[d] = ch

DigitValue(ch) == (CHOOSE d \in 1..10 : Digits[d] = ch) - 1

\* the digits of 2^63 - 1, the largest int64, and of 2^63, the magnitude of the smallest
MaxInt64Digits ==
    <<"9", "2", "2", "3", "3", "7", "2", "0", "3", "6", "8", "5", "4", "7", "7", "5", "8", "0", "7">>
MinInt64Digits ==
    <<"9", "2", "2", "3", "3", "7", "2", "0", "3", "6", "8", "5", "4", "7", "7", "5", "8", "0", "8">>

\* leading zeros add nothing to n in the loop
RECURSIVE StripZeros(_)
StripZeros(s) ==
    IF Len(s) > 0 /\ s[1] = "0" THEN StripZeros(Tail(s)) ELSE s

\* of two digit strings of one length, a is the larger number from byte i on
RECURSIVE DigitsAbove(_, _, _)
DigitsAbove(a, b, i) ==
    IF i > Len(a) THEN FALSE
    ELSE IF DigitValue(a[i]) # DigitValue(b[i]) THEN DigitValue(a[i]) > DigitValue(b[i])
    ELSE DigitsAbove(a, b, i + 1)

\* the range error: un >= 1<<63 for a value without "-", un > 1<<63 with it,
\* or the overflow of the 64-bit accumulator on the way there
OutOfRange(digits, neg) ==
    LET m == StripZeros(digits)
        limit == IF neg THEN MinInt64Digits ELSE MaxInt64Digits
    IN  \/ Len(m) > Len(limit)
        \/ Len(m) = Len(limit) /\ DigitsAbove(m, limit, 1)

\* the loop over the bytes after the sign: n = n*10 + digit, an error on a non-digit
RECURSIVE AtoiLoop(_, _, _)
AtoiLoop(s, i, n) ==
    IF i > Len(s) THEN [ok |-> TRUE, n |-> n]
    ELSE IF ~IsDigit(s[i]) THEN [ok |-> FALSE, n |-> 0]
    ELSE AtoiLoop(s, i + 1, n * 10 + DigitValue(s[i]))

Atoi(s) ==
    IF Len(s) = 0 THEN [ok |-> FALSE, n |-> 0]
    ELSE LET signed == s[1] = "-" \/ s[1] = "+"
             rest == IF signed THEN SubSeq(s, 2, Len(s)) ELSE s
             r == AtoiLoop(rest, 1, 0)
         IN  IF Len(rest) < 1 THEN [ok |-> FALSE, n |-> 0]
             ELSE IF \E i \in 1..Len(rest) : ~IsDigit(rest[i]) THEN [ok |-> FALSE, n |-> 0]
             ELSE IF OutOfRange(rest, s[1] = "-") THEN [ok |-> FALSE, n |-> 0]
             ELSE IF s[1] = "-" THEN [ok |-> TRUE, n |-> 0 - r.n]
             ELSE r

(***************************************************************************)
(* Error values.  The sentinel errors and the remote error codes are       *)
(* declared in files of the package other than the ones modelled here;     *)
(* they are opaque, pairwise distinct values named as the code names them. *)
(***************************************************************************)
ErrHeartbeatDead == [kind |-> "ErrHeartbeatDead"]
ErrMachineAlreadyActivated == [kind |-> "ErrMachineAlreadyActivated"]
ErrMachineLimitExceeded == [kind |-> "ErrMachineLimitExceeded"]
ErrProcessLimitExceeded == [kind |-> "ErrProcessLimitExceeded"]

ErrorCodeMachineHeartbeatDead == "MACHINE_HEARTBEAT_DEAD"
ErrorCodeProcessHeartbeatDead == "PROCESS_HEARTBEAT_DEAD"
ErrorCodeFingerprintTaken == "FINGERPRINT_TAKEN"
ErrorCodeMachineLimitExceeded == "MACHINE_LIMIT_EXCEEDED"
ErrorCodeProcessLimitExceeded == "PROCESS_LIMIT_EXCEEDED"
ErrorCodeTokenInvalid == "TOKEN_INVALID"
ErrorCodeLicenseInvalid == "LICENSE_INVALID"
ErrorCodeNotFound == "NOT_FOUND"

\* &Error{response, title, detail, code, source}; the response is held by its id and status
Error(r, title, detail, code, source) ==
    [kind |-> "Error", Response |-> [ID |-> r.ID, Status |-> r.Status],
     Title |-> title, Detail |-> detail, Code |-> code, Source |-> source]

NotAuthorizedError(e) == [kind |-> "NotAuthorizedError", Err |-> e]
LicenseTokenError(e) == [kind |-> "LicenseTokenError", Err |-> e]
LicenseKeyError(e) == [kind |-> "LicenseKeyError", Err |-> e]
NotFoundError(e) == [kind |-> "NotFoundError", Err |-> e]

\* the errors of the steps before a response exists: jsonapi.Marshal, query.Values,
\* http.NewRequest, client.Do, ioutil.ReadAll
RequestError(step) == [kind |-> "RequestError", Step |-> step]

\* the error of jsonapi.Unmarshal
DecodeError == [kind |-> "DecodeError"]

(***************************************************************************)
(* The response signature verifier (verifier.VerifyResponse).  The         *)
(* signature of a response is abstracted to what the cryptographic check   *)
(* makes of it: "good", "bad", or "" for a response without one.           *)
(***************************************************************************)
ErrSignatureMalformed == [kind |-> "ErrSignatureMalformed"]
ErrSignatureMismatch == [kind |-> "ErrSignatureMismatch"]
ErrKeyMissing == [kind |-> "ErrKeyMissing"]

VerifyResponse(key, r) ==
    IF key = "" THEN ErrKeyMissing
    ELSE IF r.Headers.Signature = "" THEN ErrSignatureMalformed
    ELSE IF r.Headers.Signature # "good" THEN ErrSignatureMismatch
    ELSE NoError

(***************************************************************************)
(* Client.send                                                             *)
(***************************************************************************)
\* response.Headers.Get(name): "" for a header that is not there
Get(headers, name) == headers[name]

\* response := &Response{...} of the exchange the transport answered with
NewResponse(x) ==
    [ID |-> x.Headers.RequestID, Status |-> x.Status, Headers |-> x.Headers,
     Size |-> Len(x.Body), Body |-> x.Body, Document |-> Nil]

\* if i, e := strconv.Atoi(h); e == nil { v = i }, v starting at its zero value
IntHeader(headers, name) ==
    LET p == Atoi(Get(headers, name)) IN IF p.ok THEN p.n ELSE 0

\* if i, e := strconv.ParseInt(h, 10, 64); e == nil { reset = time.Unix(i, 0) }
TimeHeader(headers, name) ==
    LET p == Atoi(Get(headers, name))
    IN  IF p.ok THEN [kind |-> "unix", sec |-> p.n] ELSE ZeroTime

\* RateLimitError with Remaining read from the X-RateLimit-Limit header
RateLimitError_copied(r) ==
    [kind |-> "RateLimitError",
     Window |-> Get(r.Headers, "Window"),
     Count |-> IntHeader(r.Headers, "Count"),
     Limit |-> IntHeader(r.Headers, "Limit"),
     Remaining |-> IntHeader(r.Headers, "Limit"),
     Reset |-> TimeHeader(r.Headers, "Reset"),
     RetryAfter |-> IntHeader(r.Headers, "RetryAfter"),
     Err |-> Error(r, "", "", "TOO_MANY_REQUESTS", "")]

\* case response.Status == http.StatusTooManyRequests
RateLimitError(r) ==
    [kind |-> "RateLimitError",
     Window |-> Get(r.Headers, "Window"),
     Count |-> IntHeader(r.Headers, "Count"),
     Limit |-> IntHeader(r.Headers, "Limit"),
     Remaining |-> IntHeader(r.Headers, "Remaining"),
     Reset |-> TimeHeader(r.Headers, "Reset"),
     RetryAfter |-> IntHeader(r.Headers, "RetryAfter"),
     Err |-> Error(r, "", "", "TOO_MANY_REQUESTS", "")]

\* case response.Status >= http.StatusInternalServerError: fmt.Errorf("an error
\* occurred: id=%s status=%d size=%d body=%s", ...)
ServerError(r) ==
    [kind |-> "errorString", ID |-> r.ID, Status |-> r.Status, Size |-> r.Size,
     Body |-> tldr(r)]

\* TransportTier with the server-error case on a status above 500 only
TransportTier_above(r) ==
    IF r.Status = StatusTooManyRequests THEN RateLimitError(r)
    ELSE IF r.Status > StatusInternalServerError THEN ServerError(r)
    ELSE NoError

\* the switch on the status that comes before the signature check
TransportTier(r) ==
    IF r.Status = StatusTooManyRequests THEN RateLimitError(r)
    ELSE IF r.Status >= StatusInternalServerError THEN ServerError(r)
    ELSE NoError

\* if c.PublicKey != "": whether send invokes the verifier
UsesVerifier(c) == c.PublicKey # ""

\* Authenticity with the verifier's error logged and dropped
Authenticity_dropped(c, r) == NoError

\* if c.PublicKey != "" { if err := verifier.VerifyResponse(response); err != nil
\* { return response, err } }: the error this stage ends send with, if any
Authenticity(c, r) ==
    IF UsesVerifier(c) THEN VerifyResponse(c.PublicKey, r) ELSE NoError

\* EmptyBody without the test on the status
EmptyBody_sizeOnly(r) == r.Size = 0

\* if response.Status == http.StatusNoContent || response.Size == 0
EmptyBody(r) == r.Status = StatusNoContent \/ r.Size = 0

\* the switch on the code of the first reported problem
CodeError(e, code) ==
    IF code = ErrorCodeMachineHeartbeatDead \/ code = ErrorCodeProcessHeartbeatDead
        THEN ErrHeartbeatDead
    ELSE IF code = ErrorCodeFingerprintTaken THEN ErrMachineAlreadyActivated
    ELSE IF code = ErrorCodeMachineLimitExceeded THEN ErrMachineLimitExceeded
    ELSE IF code = ErrorCodeProcessLimitExceeded THEN ErrProcessLimitExceeded
    ELSE IF code = ErrorCodeTokenInvalid THEN LicenseTokenError(e)
    ELSE IF code = ErrorCodeLicenseInvalid THEN LicenseKeyError(e)
    ELSE IF code = ErrorCodeNotFound THEN NotFoundError(e)
    ELSE e

\* RemoteProblem with the code table ahead of the test on status 403
RemoteProblem_tableFirst(r, doc) ==
    IF Len(doc.Errors) > 0
    THEN LET e == Error(r, doc.Errors[1].Title, doc.Errors[1].Detail,
                        doc.Errors[1].Code, doc.Errors[1].Source.Pointer)
         IN  IF CodeError(e, doc.Errors[1].Code) # e THEN CodeError(e, doc.Errors[1].Code)
             ELSE IF r.Status = StatusForbidden THEN NotAuthorizedError(e)
             ELSE e
    ELSE NoError

\* RemoteProblem taking the code of the last reported problem
RemoteProblem_lastCode(r, doc) ==
    IF Len(doc.Errors) > 0
    THEN LET e == Error(r, doc.Errors[1].Title, doc.Errors[1].Detail,
                        doc.Errors[1].Code, doc.Errors[1].Source.Pointer)
         IN  IF r.Status = StatusForbidden THEN NotAuthorizedError(e)
             ELSE CodeError(e, doc.Errors[Len(doc.Errors)].Code)
    ELSE NoError

\* if len(doc.Errors) > 0 { ... }: the error of a decoded envelope
RemoteProblem(r, doc) ==
    IF Len(doc.Errors) > 0
    THEN LET e == Error(r, doc.Errors[1].Title, doc.Errors[1].Detail,
                        doc.Errors[1].Code, doc.Errors[1].Source.Pointer)
         IN  IF r.Status = StatusForbidden THEN NotAuthorizedError(e)
             ELSE CodeError(e, doc.Errors[1].Code)
    ELSE NoError

\* jsonapi.Unmarshal(response.Body, model): the decoder's answer for this body is
\* part of the exchange; the model holds what the decoder wrote into it, also
\* when the decoder then rejects the body
Unmarshal(x, m) ==
    LET written == IF x.parse.data = Nil THEN m ELSE x.parse.data
    IN  IF x.parse.ok
        THEN [doc |-> [Errors |-> x.parse.Errors], err |-> NoError, model |-> written]
        ELSE [doc |-> Nil, err |-> DecodeError, model |-> written]

\* Client.send from the request on: c is the client, x the exchange, m the
\* caller's model.  The result is the returned pair, the model afterwards, and
\* the collaborators invoked, in order.
send(c, x, m) ==
    IF x.fault \in {"marshal", "request"}
    THEN [response |-> Nil, err |-> RequestError(x.fault), model |-> m, calls |-> <<>>]
    ELSE IF x.fault \in {"do", "read"}
    THEN [response |-> Nil, err |-> RequestError(x.fault), model |-> m,
          calls |-> <<"Do">>]
    ELSE
    LET r == NewResponse(x)
        tier == TransportTier(r)
        sig == Authenticity(c, r)
        sigCalls == IF UsesVerifier(c) THEN <<"Do", "VerifyResponse">> ELSE <<"Do">>
        dec == Unmarshal(x, m)
        decoded == [r EXCEPT !.Document = dec.doc]
    IN  IF tier # NoError
        THEN [response |-> r, err |-> tier, model |-> m, calls |-> <<"Do">>]
        ELSE IF sig # NoError
        THEN [response |-> r, err |-> sig, model |-> m, calls |-> sigCalls]
        ELSE IF EmptyBody(r)
        THEN [response |-> r, err |-> NoError, model |-> m, calls |-> sigCalls]
        ELSE IF dec.err # NoError
        THEN [response |-> r, err |-> dec.err, model |-> dec.model,
              calls |-> sigCalls \o <<"Unmarshal">>]
        ELSE [response |-> decoded, err |-> RemoteProblem(decoded, dec.doc),
              model |-> dec.model, calls |-> sigCalls \o <<"Unmarshal">>]

(***************************************************************************)
(* License                                                                 *)
(***************************************************************************)
ErrLicenseInvalid == [kind |-> "ErrLicenseInvalid"]
ErrLicenseNotActivated == [kind |-> "ErrLicenseNotActivated"]
ErrLicenseExpired == [kind |-> "ErrLicenseExpired"]
ErrLicenseSuspended == [kind |-> "ErrLicenseSuspended"]
ErrLicenseTooManyMachines == [kind |-> "ErrLicenseTooManyMachines"]
ErrLicenseTooManyCores == [kind |-> "ErrLicenseTooManyCores"]
ErrLicenseTooManyProcesses == [kind |-> "ErrLicenseTooManyProcesses"]
ErrValidationFingerprintMissing == [kind |-> "ErrValidationFingerprintMissing"]
ErrValidationProductMissing == [kind |-> "ErrValidationProductMissing"]
ErrHeartbeatRequired == [kind |-> "ErrHeartbeatRequired"]
ErrLicenseNotSigned == [kind |-> "ErrLicenseNotSigned"]
ErrLicenseNotGenuine == [kind |-> "ErrLicenseNotGenuine"]

ValidationCodeValid == "VALID"
ValidationCodeFingerprintScopeMismatch == "FINGERPRINT_SCOPE_MISMATCH"
ValidationCodeNoMachines == "NO_MACHINES"
ValidationCodeNoMachine == "NO_MACHINE"
ValidationCodeExpired == "EXPIRED"
ValidationCodeSuspended == "SUSPENDED"
ValidationCodeTooManyMachines == "TOO_MANY_MACHINES"
ValidationCodeTooManyCores == "TOO_MANY_CORES"
ValidationCodeTooManyProcesses == "TOO_MANY_PROCESSES"
ValidationCodeFingerprintScopeRequired == "FINGERPRINT_SCOPE_REQUIRED"
ValidationCodeFingerprintScopeEmpty == "FINGERPRINT_SCOPE_EMPTY"
ValidationCodeHeartbeatNotStarted == "HEARTBEAT_NOT_STARTED"
ValidationCodeHeartbeatDead == "HEARTBEAT_DEAD"
ValidationCodeProductScopeRequired == "PRODUCT_SCOPE_REQUIRED"
ValidationCodeProductScopeEmpty == "PRODUCT_SCOPE_EMPTY"

SchemeCodeEd25519 == "ED25519_SIGN"

\* the fields of License that the modelled methods read or write; the zero License
License(id, type, name, key, scheme, policy) ==
    [ID |-> id, Type |-> type, Name |-> name, Key |-> key, Scheme |-> scheme,
     PolicyId |-> policy, LastValidation |-> Nil]

ZeroLicense == License("", "", "", "", "", "")

\* func (l *License) SetID(id string) error
SetID(l, id) == [license |-> [l EXCEPT !.ID = id], err |-> NoError]

\* func (l *License) SetType(t string) error
SetType(l, t) == [license |-> [l EXCEPT !.Type = t], err |-> NoError]

\* func (l *License) SetData(to func(target interface{}) error) error: return
\* to(l).  A callback is what it does to its target: the fields it writes
\* (to.fields, with their values in to.Name, to.Key, to.Scheme) and the error
\* it returns then.  The decoder's callback writes the fields its attributes
\* hold, skips one it cannot decode and reports that after writing the others.
SetData(l, to) ==
    [license |-> [l EXCEPT !.Name = IF "Name" \in to.fields THEN to.Name ELSE @,
                           !.Key = IF "Key" \in to.fields THEN to.Key ELSE @,
                           !.Scheme = IF "Scheme" \in to.fields THEN to.Scheme ELSE @],
     err |-> to.err]

\* relationship.(*jsonapi.ResourceObjectIdentifier) on a value of another type
Panic == [kind |-> "panic"]

\* func (l *License) SetRelationships(relationships map[string]interface{}) error
SetRelationships(l, relationships) ==
    IF "policy" \in DOMAIN relationships
    THEN IF relationships.policy.kind = "ResourceObjectIdentifier"
         THEN [license |-> [l EXCEPT !.PolicyId = relationships.policy.ID], err |-> NoError]
         ELSE [license |-> l, err |-> Panic]
    ELSE [license |-> l, err |-> NoError]

\* validation := &validation{}
ZeroValidation == [License |-> ZeroLicense, Result |-> [Code |-> ""]]

\* client := NewClient(): the client of the package-level configuration
NewClient == [PublicKey |-> PublicKey]

\* ValidationError with NO_MACHINE left out of the not-activated group
ValidationError_noMachine(code) ==
    IF code = ValidationCodeValid THEN NoError
    ELSE IF code = ValidationCodeFingerprintScopeMismatch
            \/ code = ValidationCodeNoMachines
        THEN ErrLicenseNotActivated
    ELSE IF code = ValidationCodeExpired THEN ErrLicenseExpired
    ELSE IF code = ValidationCodeSuspended THEN ErrLicenseSuspended
    ELSE IF code = ValidationCodeTooManyMachines THEN ErrLicenseTooManyMachines
    ELSE IF code = ValidationCodeTooManyCores THEN ErrLicenseTooManyCores
    ELSE IF code = ValidationCodeTooManyProcesses THEN ErrLicenseTooManyProcesses
    ELSE IF code = ValidationCodeFingerprintScopeRequired
            \/ code = ValidationCodeFingerprintScopeEmpty
        THEN ErrValidationFingerprintMissing
    ELSE IF code = ValidationCodeHeartbeatNotStarted THEN ErrHeartbeatRequired
    ELSE IF code = ValidationCodeHeartbeatDead THEN ErrHeartbeatDead
    ELSE IF code = ValidationCodeProductScopeRequired
            \/ code = ValidationCodeProductScopeEmpty
        THEN ErrValidationProductMissing
    ELSE ErrLicenseInvalid

\* the interpretation of validation.Result.Code in License.Validate (src/license.go)
ValidationError(code) ==
    IF code = ValidationCodeValid THEN NoError
    ELSE IF code = ValidationCodeFingerprintScopeMismatch
            \/ code = ValidationCodeNoMachines
            \/ code = ValidationCodeNoMachine
        THEN ErrLicenseNotActivated
    ELSE IF code = ValidationCodeExpired THEN ErrLicenseExpired
    ELSE IF code = ValidationCodeSuspended THEN ErrLicenseSuspended
    ELSE IF code = ValidationCodeTooManyMachines THEN ErrLicenseTooManyMachines
    ELSE IF code = ValidationCodeTooManyCores THEN ErrLicenseTooManyCores
    ELSE IF code = ValidationCodeTooManyProcesses THEN ErrLicenseTooManyProcesses
    ELSE IF code = ValidationCodeFingerprintScopeRequired
            \/ code = ValidationCodeFingerprintScopeEmpty
        THEN ErrValidationFingerprintMissing
    ELSE IF code = ValidationCodeHeartbeatNotStarted THEN ErrHeartbeatRequired
    ELSE IF code = ValidationCodeHeartbeatDead THEN ErrHeartbeatDead
    ELSE IF code = ValidationCodeProductScopeRequired
            \/ code = ValidationCodeProductScopeEmpty
        THEN ErrValidationProductMissing
    ELSE ErrLicenseInvalid

\* the same interpretation in the other License.Validate of the sources
\* (src/unnamed/part_000), which has no case for TOO_MANY_PROCESSES
ValidationError_part000(code) ==
    IF code = ValidationCodeValid THEN NoError
    ELSE IF code = ValidationCodeFingerprintScopeMismatch
            \/ code = ValidationCodeNoMachines
            \/ code = ValidationCodeNoMachine
        THEN ErrLicenseNotActivated
    ELSE IF code = ValidationCodeExpired THEN ErrLicenseExpired
    ELSE IF code = ValidationCodeSuspended THEN ErrLicenseSuspended
    ELSE IF code = ValidationCodeTooManyMachines THEN ErrLicenseTooManyMachines
    ELSE IF code = ValidationCodeTooManyCores THEN ErrLicenseTooManyCores
    ELSE IF code = ValidationCodeFingerprintScopeRequired
            \/ code = ValidationCodeFingerprintScopeEmpty
        THEN ErrValidationFingerprintMissing
    ELSE IF code = ValidationCodeHeartbeatNotStarted THEN ErrHeartbeatRequired
    ELSE IF code = ValidationCodeHeartbeatDead THEN ErrHeartbeatDead
    ELSE IF code = ValidationCodeProductScopeRequired
            \/ code = ValidationCodeProductScopeEmpty
        THEN ErrValidationProductMissing
    ELSE ErrLicenseInvalid

\* if _, ok := err.(*NotFoundError); ok { return ErrLicenseInvalid }; return err
RequestFailure(e) == IF e.kind = "NotFoundError" THEN ErrLicenseInvalid ELSE e

\* *l = validation.License; l.LastValidation = &validation.Result
Validated(v) == [v.License EXCEPT !.LastValidation = v.Result]

\* *l = validation.License, in the source whose License has no LastValidation
Validated_part000(v) == v.License

(***************************************************************************)
(* The license key verifier (verifier.VerifyLicense).  A key is abstracted *)
(* to what the cryptographic check makes of it: a key "genuine/..." is     *)
(* signed by the configured key, a key "forged/..." has a signature that   *)
(* does not match, any other key carries no decodable signature.           *)
(***************************************************************************)
Genuine(key) == key \in {"genuine/1", "genuine/2"}
Forged(key) == key \in {"forged/1"}

VerifyLicense(key, l) ==
    IF key = "" THEN [payload |-> Nil, err |-> ErrKeyMissing]
    ELSE IF Genuine(l.Key) THEN [payload |-> [kind |-> "dataset", of |-> l.Key], err |-> NoError]
    ELSE IF Forged(l.Key) THEN [payload |-> Nil, err |-> ErrLicenseNotGenuine]
    ELSE [payload |-> Nil, err |-> ErrSignatureMalformed]

\* Verify taking a license with a key for a signed one
Verify_byKey(l) ==
    IF l.Key = ""
    THEN [payload |-> Nil, err |-> ErrLicenseNotSigned, calls |-> <<>>]
    ELSE LET v == VerifyLicense(PublicKey, l)
         IN  [payload |-> v.payload, err |-> v.err, calls |-> <<"VerifyLicense">>]

\* License.Verify: the returned pair and the collaborators invoked
Verify(l) ==
    IF l.Scheme = ""
    THEN [payload |-> Nil, err |-> ErrLicenseNotSigned, calls |-> <<>>]
    ELSE LET v == VerifyLicense(PublicKey, l)
         IN  [payload |-> v.payload, err |-> v.err, calls |-> <<"VerifyLicense">>]

(***************************************************************************)
(* The exchanges the model answers a request with.                         *)
(***************************************************************************)
PublicKeys == {"", "pk"}
Signatures == {"", "good", "bad"}
Statuses == {200, StatusNoContent, 400, StatusForbidden, 404, StatusTooManyRequests,
             StatusInternalServerError, 503}

\* response bodies: every short byte string over the alphabet, and long ones
\* around the preview cap with line feeds at every period-th byte
Alphabet == {"a", LF, "\\", "n"}
ShortBodies == UNION {[1..k -> Alphabet] : k \in 0..MaxShort}
LongBody(len, period, phase) ==
    [i \in 1..len |-> IF (i + phase) % period = 0 THEN LF
                      ELSE IF i % 2 = 0 THEN "\\" ELSE "n"]
LongLengths == (TldrCap - 1)..(TldrCap + MaxOver)
LongBodies ==
    {LongBody(len, p, ph) : len \in LongLengths, p \in 1..MaxPeriod, ph \in 0..1}
    \cup {LongBody(len, len + 2, 0) : len \in LongLengths}
Bodies == ShortBodies \cup LongBodies
FewBodies == {<<>>, <<"a", LF>>}

\* "9223372036854775808", one above the largest int64, and "-" followed by
\* twenty nines, below the smallest: digits only, and a range error in Go
OverMaxInt64 == MinInt64Digits
UnderMinInt64 == <<"-">> \o [i \in 1..(Len(MinInt64Digits) + 1) |-> "9"]

\* header values: absent or empty, integers with and without a sign, garbled
HeaderValues == {<<>>, <<"0">>, <<"3", "0">>, <<"-", "7">>, <<"3", "x">>}
\* header values around the range of int64: inside it, above it, below it
RangeValues == {<<"3", "0">>, OverMaxInt64, UnderMinInt64}
Windows == {"", "burst"}

Headers(sig, window, count, limit, remaining, reset, retryAfter) ==
    [RequestID |-> "req", Signature |-> sig, Window |-> window, Count |-> count,
     Limit |-> limit, Remaining |-> remaining, Reset |-> reset, RetryAfter |-> retryAfter]
PlainHeaders(sig) == Headers(sig, "", <<>>, <<>>, <<>>, <<>>, <<>>)
RateHeaders(sig) == Headers(sig, "burst", <<"3">>, <<"9">>, <<"6">>, <<"7", "7">>, <<"3", "0">>)

\* the problems an envelope reports: one per code, each with its own title,
\* detail and source pointer
ProblemCodes ==
    {ErrorCodeMachineHeartbeatDead, ErrorCodeProcessHeartbeatDead, ErrorCodeFingerprintTaken,
     ErrorCodeMachineLimitExceeded, ErrorCodeProcessLimitExceeded, ErrorCodeTokenInvalid,
     ErrorCodeLicenseInvalid, ErrorCodeNotFound, "UNLISTED", ""}
Problem(code) ==
    [Title |-> <<"title", code>>, Detail |-> <<"detail", code>>, Code |-> code,
     Source |-> [Pointer |-> <<"pointer", code>>]]
Problems == {Problem(code) : code \in ProblemCodes}
ProblemLists == UNION {[1..k -> Problems] : k \in 0..MaxProblems}

\* what the decoder makes of a body: a rejection, or a document with its
\* problems and the data it puts into the model (Nil: none)
Malformed == [ok |-> FALSE, Errors |-> <<>>, data |-> Nil]
\* a rejection after the decoder wrote data into the model
Rejected(data) == [ok |-> FALSE, Errors |-> <<>>, data |-> data]
Document(errors, data) == [ok |-> TRUE, Errors |-> errors, data |-> data]
SomeData == [kind |-> "data"]
Parses == {Malformed, Rejected(SomeData)} \cup {Document(es, d) : es \in ProblemLists, d \in {Nil, SomeData}}

Exchange(fault, status, headers, body, parse) ==
    [fault |-> fault, Status |-> status, Headers |-> headers, Body |-> body, parse |-> parse]
NoExchange == Exchange("none", 0, PlainHeaders(""), <<>>, Malformed)

\* the steps of send that can fail before a response exists: the ones before
\* the request leaves, and the two the call blocks in
EarlyFaults == {"marshal", "request"}
TransportFaults == {"do", "read"}
Faults == EarlyFaults \cup TransportFaults
FaultedExchange(f) == Exchange(f, 0, PlainHeaders(""), <<>>, Malformed)
GeneralHeaders == {PlainHeaders(sig) : sig \in Signatures} \cup {RateHeaders("good")}
ServerFaultStatuses == {StatusInternalServerError, 503}

(***************************************************************************)
(* The callers of Client.send, each with a fresh model.                    *)
(***************************************************************************)
Idle ==
    /\ op = "idle"
    /\ exchange = NoExchange
    /\ response = Nil
    /\ err = NoError
    /\ model = Nil
    /\ payload = Nil
    /\ calls = <<>>

\* the kinds of call that wait for the transport
Calls == {"send", "Validate", "Validate_part000"}
NoneWaiting == [c \in Calls |-> 0]
InFlight == waiting["send"] + waiting["Validate"] + waiting["Validate_part000"]

\* res, err := c.client.Do(req): the request leaves and the call blocks
Issue(c) ==
    /\ InFlight < MaxInFlight
    /\ waiting' = [waiting EXCEPT ![c] = @ + 1]

\* client.Do and ioutil.ReadAll have returned to a call that was blocked
Arrive(c) ==
    /\ waiting[c] > 0
    /\ waiting' = [waiting EXCEPT ![c] = @ - 1]

Init ==
    /\ PublicKey \in PublicKeys
    /\ license = ZeroLicense
    /\ waiting = NoneWaiting
    /\ Idle

\* response, err := client.send(method, path, params, model), answered with x
Sent(x) ==
    LET res == send(NewClient, x, Nil)
    IN  /\ exchange' = x
        /\ response' = res.response
        /\ err' = res.err
        /\ model' = res.model
        /\ calls' = res.calls

\* client.send up to client.Do: the call fails before the request leaves, or
\* the request leaves and the call blocks
Send ==
    /\ op = "idle"
    /\ \/ /\ \E f \in EarlyFaults : Sent(FaultedExchange(f))
          /\ op' = "send"
          /\ UNCHANGED <<PublicKey, license, payload, waiting>>
       \/ /\ Issue("send")
          /\ UNCHANGED <<PublicKey, license, op, exchange, response, err, model, payload, calls>>

\* client.send from the return of client.Do on.  The exchanges of a call:
\* requests the transport fails; every status with every signature, a few
\* bodies and everything a body can decode to; throttled responses with every
\* combination of rate-limit headers, plain and around the range of int64;
\* server faults with every body.
Receive ==
    /\ op = "idle"
    /\ Arrive("send")
    /\ \/ \E f \in TransportFaults : Sent(FaultedExchange(f))
       \/ \E st \in Statuses, hs \in GeneralHeaders, b \in FewBodies, p \in Parses :
             Sent(Exchange("none", st, hs, b, p))
       \/ \E w \in Windows, c \in HeaderValues, l \in HeaderValues, rm \in HeaderValues,
             rs \in HeaderValues, ra \in HeaderValues :
             Sent(Exchange("none", StatusTooManyRequests,
                           Headers("good", w, c, l, rm, rs, ra), <<"a">>,
                           Document(<<>>, SomeData)))
       \/ \E w \in Windows, c \in RangeValues, l \in RangeValues, rm \in RangeValues,
             rs \in RangeValues, ra \in RangeValues :
             Sent(Exchange("none", StatusTooManyRequests,
                           Headers("good", w, c, l, rm, rs, ra), <<"a">>,
                           Document(<<>>, SomeData)))
       \/ \E st \in ServerFaultStatuses, sig \in {"good", "bad"}, b \in Bodies :
             Sent(Exchange("none", st, PlainHeaders(sig), b, Malformed))
    /\ op' = "send"
    /\ UNCHANGED <<PublicKey, license, payload>>

\* the caller drops the outcome of the call
Return ==
    /\ op # "idle"
    /\ op' = "idle"
    /\ exchange' = NoExchange
    /\ response' = Nil
    /\ err' = NoError
    /\ model' = Nil
    /\ payload' = Nil
    /\ calls' = <<>>
    /\ UNCHANGED <<PublicKey, license, waiting>>

Next == Send \/ Receive \/ Return

Spec == Init /\ [][Next]_vars

(***************************************************************************)
(* License.Validate and License.Verify, and their caller.                  *)
(***************************************************************************)
\* Validate storing the license and the result only when the code is VALID
Validate_updateOnValid(l, x) ==
    LET res == send(NewClient, x, ZeroValidation)
    IN  IF res.err # NoError
        THEN [license |-> l, err |-> RequestFailure(res.err), res |-> res]
        ELSE IF res.model.Result.Code = ValidationCodeValid
        THEN [license |-> Validated(res.model), err |-> NoError, res |-> res]
        ELSE [license |-> l, err |-> ValidationError(res.model.Result.Code), res |-> res]

\* Validate storing the validation before it looks at the error of the request
Validate_storeFirst(l, x) ==
    LET res == send(NewClient, x, ZeroValidation)
    IN  IF res.err # NoError
        THEN [license |-> Validated(res.model), err |-> RequestFailure(res.err), res |-> res]
        ELSE [license |-> Validated(res.model),
              err |-> ValidationError(res.model.Result.Code), res |-> res]

\* License.Validate on the receiver l, the validate request answered with x:
\* the receiver afterwards, the returned error, and what send handed back
Validate(l, x) ==
    LET res == send(NewClient, x, ZeroValidation)
    IN  IF res.err # NoError
        THEN [license |-> l, err |-> RequestFailure(res.err), res |-> res]
        ELSE [license |-> Validated(res.model),
              err |-> ValidationError(res.model.Result.Code), res |-> res]

\* License.Validate of src/unnamed/part_000
Validate_part000(l, x) ==
    LET res == send(NewClient, x, ZeroValidation)
    IN  IF res.err # NoError
        THEN [license |-> l, err |-> RequestFailure(res.err), res |-> res]
        ELSE [license |-> Validated_part000(res.model),
              err |-> ValidationError_part000(res.model.Result.Code), res |-> res]

Keys == {"plain", "genuine/1", "forged/1"}
Schemes == {"", SchemeCodeEd25519}
InitLicenses ==
    {License("lic-1", "licenses", "first", k, sc, "pol-1") : k \in Keys, sc \in Schemes}
ResponseLicenses ==
    {License("lic-1", "licenses", "renamed", "genuine/2", SchemeCodeEd25519, "pol-1"),
     License("lic-1", "licenses", "first", "plain", "", "pol-1")}

\* the validation codes of the service: the ones License.Validate lists, and
\* codes it does not list
ListedValidationCodes ==
    {ValidationCodeValid, ValidationCodeFingerprintScopeMismatch, ValidationCodeNoMachines,
     ValidationCodeNoMachine, ValidationCodeExpired, ValidationCodeSuspended,
     ValidationCodeTooManyMachines, ValidationCodeTooManyCores,
     ValidationCodeTooManyProcesses, ValidationCodeFingerprintScopeRequired,
     ValidationCodeFingerprintScopeEmpty, ValidationCodeHeartbeatNotStarted,
     ValidationCodeHeartbeatDead, ValidationCodeProductScopeRequired,
     ValidationCodeProductScopeEmpty}
ValidationCodes == ListedValidationCodes \cup {"NOT_FOUND", "OVERDUE", "BANNED", ""}

\* what a body decodes to in answer to a validate request: a rejection, an
\* envelope of problems, or a validation (a license and a result)
Validations == {[License |-> l, Result |-> [Code |-> c]] : l \in ResponseLicenses, c \in ValidationCodes}
ValidateProblems == {Problem(ErrorCodeNotFound), Problem("UNLISTED")}
ValidateProblemLists == UNION {[1..k -> ValidateProblems] : k \in 1..MaxProblems}
AValidation == [License |-> License("lic-1", "licenses", "renamed", "genuine/2",
                                    SchemeCodeEd25519, "pol-1"),
                Result |-> [Code |-> ValidationCodeValid]]
ValidateParses ==
    {Malformed, Rejected(AValidation)}
    \cup {Document(es, d) : es \in ValidateProblemLists, d \in {Nil, AValidation}}
    \cup {Document(<<>>, d) : d \in {Nil} \cup Validations}
ValidateStatuses == {200, StatusNoContent, StatusForbidden, 404, StatusTooManyRequests, 503}
\* the statuses send refuses before it looks at the body, and the few bodies
\* they are answered with: one the decoder rejects, one that holds a validation
RefusedStatuses == {StatusTooManyRequests, 503}
FewValidateParses == {Malformed, Document(<<>>, AValidation)}

\* what the callers of the setters pass: ids, types, callbacks that write none,
\* some or all of the named fields and fail or not, and maps of relationships
\* with and without a policy
LicenseIDs == {"lic-1", "lic-2"}
LicenseTypes == {"licenses"}
Callbacks ==
    {[fields |-> {}, Name |-> "", Key |-> "", Scheme |-> "", err |-> DecodeError],
     [fields |-> {"Name"}, Name |-> "renamed", Key |-> "", Scheme |-> "", err |-> DecodeError],
     [fields |-> {"Name"}, Name |-> "renamed", Key |-> "", Scheme |-> "", err |-> NoError],
     [fields |-> {"Name", "Key", "Scheme"}, Name |-> "renamed", Key |-> "genuine/2",
      Scheme |-> SchemeCodeEd25519, err |-> NoError],
     [fields |-> {"Name", "Key", "Scheme"}, Name |-> "first", Key |-> "plain",
      Scheme |-> "", err |-> NoError]}
Relationships ==
    {[account |-> [kind |-> "ResourceObjectIdentifier", ID |-> "acct-1"]],
     [policy |-> [kind |-> "ResourceObjectIdentifier", ID |-> "pol-1"]],
     [policy |-> [kind |-> "string", ID |-> "pol-1"]]}

InitLicense ==
    /\ PublicKey \in PublicKeys
    /\ license \in InitLicenses
    /\ waiting = NoneWaiting
    /\ Idle

\* the record v of a call of License.Validate, answered with x, becomes the state
Validating(x, v) ==
    /\ exchange' = x
    /\ license' = v.license
    /\ err' = v.err
    /\ response' = v.res.response
    /\ model' = v.res.model
    /\ calls' = v.res.calls

\* err := license.Validate(fingerprints...) up to client.Do in send: the client
\* is built, the request is built from l.ID, and the call fails before the
\* request leaves or blocks
CallValidate ==
    /\ op = "idle"
    /\ \/ /\ \E f \in EarlyFaults :
                Validating(FaultedExchange(f), Validate(license, FaultedExchange(f)))
          /\ op' = "Validate"
          /\ UNCHANGED <<PublicKey, payload, waiting>>
       \/ /\ Issue("Validate")
          /\ UNCHANGED <<PublicKey, license, op, exchange, response, err, model, payload, calls>>

\* License.Validate from the return of client.Do on, on the receiver as it is then
ReceiveValidate ==
    /\ op = "idle"
    /\ Arrive("Validate")
    /\ \/ \E f \in TransportFaults :
             Validating(FaultedExchange(f), Validate(license, FaultedExchange(f)))
       \/ \E st \in ValidateStatuses \ RefusedStatuses, sig \in {"good", "bad"},
             b \in FewBodies, p \in ValidateParses :
             LET x == Exchange("none", st, PlainHeaders(sig), b, p)
             IN  Validating(x, Validate(license, x))
       \/ \E st \in RefusedStatuses, sig \in {"good", "bad"}, b \in FewBodies,
             p \in FewValidateParses :
             LET x == Exchange("none", st, PlainHeaders(sig), b, p)
             IN  Validating(x, Validate(license, x))
    /\ op' = "Validate"
    /\ UNCHANGED <<PublicKey, payload>>

\* the same call with the License.Validate of src/unnamed/part_000
CallValidate_part000 ==
    /\ op = "idle"
    /\ \/ /\ \E f \in EarlyFaults :
                Validating(FaultedExchange(f), Validate_part000(license, FaultedExchange(f)))
          /\ op' = "Validate_part000"
          /\ UNCHANGED <<PublicKey, payload, waiting>>
       \/ /\ Issue("Validate_part000")
          /\ UNCHANGED <<PublicKey, license, op, exchange, response, err, model, payload, calls>>

ReceiveValidate_part000 ==
    /\ op = "idle"
    /\ Arrive("Validate_part000")
    /\ \/ \E f \in TransportFaults :
             Validating(FaultedExchange(f), Validate_part000(license, FaultedExchange(f)))
       \/ \E st \in ValidateStatuses \ RefusedStatuses, sig \in {"good", "bad"},
             b \in FewBodies, p \in ValidateParses :
             LET x == Exchange("none", st, PlainHeaders(sig), b, p)
             IN  Validating(x, Validate_part000(license, x))
       \/ \E st \in RefusedStatuses, sig \in {"good", "bad"}, b \in FewBodies,
             p \in FewValidateParses :
             LET x == Exchange("none", st, PlainHeaders(sig), b, p)
             IN  Validating(x, Validate_part000(license, x))
    /\ op' = "Validate_part000"
    /\ UNCHANGED <<PublicKey, payload>>

\* dataset, err := license.Verify()
CallVerify ==
    /\ op = "idle"
    /\ LET v == Verify(license)
       IN  /\ payload' = v.payload
           /\ err' = v.err
           /\ calls' = v.calls
    /\ op' = "Verify"
    /\ UNCHANGED <<PublicKey, license, exchange, response, model, waiting>>

\* the record v of a call of a setter becomes the state
Setting(v) ==
    /\ license' = v.license
    /\ err' = v.err
    /\ UNCHANGED <<PublicKey, exchange, response, model, payload, calls, waiting>>

\* err := license.SetID(id)
CallSetID ==
    /\ op = "idle"
    /\ \E id \in LicenseIDs : Setting(SetID(license, id))
    /\ op' = "SetID"

\* err := license.SetType(t)
CallSetType ==
    /\ op = "idle"
    /\ \E t \in LicenseTypes : Setting(SetType(license, t))
    /\ op' = "SetType"

\* err := license.SetData(to)
CallSetData ==
    /\ op = "idle"
    /\ \E to \in Callbacks : Setting(SetData(license, to))
    /\ op' = "SetData"

\* err := license.SetRelationships(relationships)
CallSetRelationships ==
    /\ op = "idle"
    /\ \E rel \in Relationships : Setting(SetRelationships(license, rel))
    /\ op' = "SetRelationships"

NextLicense ==
    \/ CallValidate
    \/ ReceiveValidate
    \/ CallValidate_part000
    \/ ReceiveValidate_part000
    \/ CallVerify
    \/ CallSetID
    \/ CallSetType
    \/ CallSetData
    \/ CallSetRelationships
    \/ Return

SpecLicense == InitLicense /\ [][NextLicense]_vars

(***************************************************************************)
(* Properties of Client.send.                                              *)
(***************************************************************************)
\* a call of Client.send that got a response from the transport
Answered == op = "send" /\ exchange.fault = "none"

\* the transport-tier check lets the response through
PassedTransport ==
    exchange.Status # StatusTooManyRequests /\ exchange.Status < StatusInternalServerError

\* a public key is configured and the verifier rejects the response
SignatureFailed ==
    PublicKey # "" /\ VerifyResponse(PublicKey, NewResponse(exchange)) # NoError

Invoked(callee) == \E i \in 1..Len(calls) : calls[i] = callee

\* C1: when a public key is configured and the signature check of a response
\* that passed the transport tier fails, send returns the verifier's error, never
\* calls the decoder, leaves the model unpopulated and Response.Document nil,
\* whatever the status (below 500, not 429) and the body.
C1_SignatureFailureIsTerminal ==
    (Answered /\ PassedTransport /\ SignatureFailed) =>
        /\ err = VerifyResponse(PublicKey, NewResponse(exchange))
        /\ err # NoError
        /\ ~Invoked("Unmarshal")
        /\ model = Nil
        /\ response # Nil
        /\ response.Document = Nil

\* a rejected signature on a 200 response whose body the decoder would have
\* turned into data and reported problems
C1_Witness ==
    /\ Answered
    /\ PublicKey = "pk"
    /\ exchange.Status = 200
    /\ exchange.Headers.Signature = "bad"
    /\ Len(exchange.Body) > 0
    /\ exchange.parse.ok
    /\ exchange.parse.data = SomeData
    /\ Len(exchange.parse.Errors) > 0
    /\ err = ErrSignatureMismatch

\* C2: a response with status 429 or status >= 500 ends send in the transport
\* tier: the verifier is not invoked, the body is not decoded, and the error is
\* the rate-limit error (429) or the server error (>= 500), whatever the body
\* and the headers are; the collaborators are only ever invoked in the order
\* transport, verifier, decoder.
C2_TransportTierShortCircuits ==
    /\ op = "send" =>
          calls \in {<<>>, <<"Do">>, <<"Do", "VerifyResponse">>, <<"Do", "Unmarshal">>,
                     <<"Do", "VerifyResponse", "Unmarshal">>}
    /\ (Answered /\ ~PassedTransport) =>
          /\ ~Invoked("VerifyResponse")
          /\ ~Invoked("Unmarshal")
          /\ model = Nil
          /\ response # Nil
          /\ response.Document = Nil
          /\ exchange.Status = StatusTooManyRequests => err.kind = "RateLimitError"
          /\ exchange.Status >= StatusInternalServerError => err.kind = "errorString"

\* a throttled response with a public key configured, a signature that would be
\* rejected and a body that would decode to problems
C2_Witness ==
    /\ Answered
    /\ PublicKey = "pk"
    /\ exchange.Status = StatusTooManyRequests
    /\ exchange.Headers.Signature = "bad"
    /\ Len(exchange.Body) > 0
    /\ exchange.parse.ok
    /\ Len(exchange.parse.Errors) > 0
    /\ err.kind = "RateLimitError"

\* a header value that is a decimal integer: an optional sign and one or more digits
Unsigned(s) == IF Len(s) > 0 /\ s[1] \in {"+", "-"} THEN Tail(s) ELSE s
IsDecimalInteger(s) ==
    /\ Len(Unsigned(s)) > 0
    /\ \A i \in 1..Len(Unsigned(s)) : Unsigned(s)[i] \in {"0", "1", "2", "3", "4", "5", "6", "7", "8", "9"}
DecimalDigit(ch) ==
    CASE ch = "0" -> 0 [] ch = "1" -> 1 [] ch = "2" -> 2 [] ch = "3" -> 3 [] ch = "4" -> 4
      [] ch = "5" -> 5 [] ch = "6" -> 6 [] ch = "7" -> 7 [] ch = "8" -> 8 [] ch = "9" -> 9
RECURSIVE Magnitude(_)
Magnitude(s) ==
    IF Len(s) = 0 THEN 0
    ELSE 10 * Magnitude(SubSeq(s, 1, Len(s) - 1)) + DecimalDigit(s[Len(s)])
DecimalValue(s) == IF s[1] = "-" THEN 0 - Magnitude(Unsigned(s)) ELSE Magnitude(Unsigned(s))
\* whether the decimal integer s lies in -2^63 .. 2^63 - 1: its magnitude without
\* leading zeros has fewer than 19 digits, or 19 digits that are not above the
\* bound at the first digit where the two differ
Significant(s) ==
    LET u == Unsigned(s)
        lead == {i \in 1..Len(u) : \A j \in 1..i : u[j] = "0"}
    IN  SubSeq(u, Cardinality(lead) + 1, Len(u))
Int64Bound(s) ==
    IF s[1] = "-" THEN <<9, 2, 2, 3, 3, 7, 2, 0, 3, 6, 8, 5, 4, 7, 7, 5, 8, 0, 8>>
    ELSE <<9, 2, 2, 3, 3, 7, 2, 0, 3, 6, 8, 5, 4, 7, 7, 5, 8, 0, 7>>
FitsInt64(s) ==
    LET m == Significant(s)
        b == Int64Bound(s)
        differ == {i \in 1..Len(b) : Len(m) = Len(b) /\ DecimalDigit(m[i]) # b[i]}
    IN  \/ Len(m) < Len(b)
        \/ /\ Len(m) = Len(b)
           /\ \A i \in differ : (\A j \in differ : i <= j) => DecimalDigit(m[i]) < b[i]
\* what Go parses: a decimal integer in the range of int; anything else is unparsable
Parsable(s) == IsDecimalInteger(s) /\ FitsInt64(s)
IntegerOrZero(s) == IF Parsable(s) THEN DecimalValue(s) ELSE 0

\* C3: for every response with status 429 send returns a RateLimitError, and
\* each of Count, Limit, Remaining, RetryAfter and Reset is the value of its own
\* header when that header is a decimal integer Go parses (one in the range of
\* int64) and the zero value when the header is missing or unparsable: empty,
\* garbled, or a decimal integer out of that range.
C3_RateLimitParsingIsTotal ==
    (Answered /\ exchange.Status = StatusTooManyRequests) =>
        /\ err.kind = "RateLimitError"
        /\ err.Count = IntegerOrZero(exchange.Headers.Count)
        /\ err.Limit = IntegerOrZero(exchange.Headers.Limit)
        /\ err.Remaining = IntegerOrZero(exchange.Headers.Remaining)
        /\ err.RetryAfter = IntegerOrZero(exchange.Headers.RetryAfter)
        /\ err.Reset = IF Parsable(exchange.Headers.Reset)
                       THEN [kind |-> "unix", sec |-> DecimalValue(exchange.Headers.Reset)]
                       ELSE ZeroTime

\* Retry-After: 30 and X-RateLimit-Remaining: 0 with every other header absent
C3_Witness ==
    /\ Answered
    /\ exchange.Status = StatusTooManyRequests
    /\ exchange.Headers.RetryAfter = <<"3", "0">>
    /\ exchange.Headers.Remaining = <<"0">>
    /\ exchange.Headers.Count = <<>>
    /\ exchange.Headers.Limit = <<>>
    /\ exchange.Headers.Reset = <<>>
    /\ exchange.Headers.Window = ""
    /\ err.kind = "RateLimitError"
    /\ err.RetryAfter = 30
    /\ err.Remaining = 0
    /\ err.Count = 0
    /\ err.Limit = 0
    /\ err.Reset = ZeroTime

\* a throttled response whose headers are a negative integer and garbled values
C3_WitnessGarbled ==
    /\ Answered
    /\ exchange.Status = StatusTooManyRequests
    /\ exchange.Headers.RetryAfter = <<"3", "x">>
    /\ exchange.Headers.Count = <<"-", "7">>
    /\ exchange.Headers.Reset = <<"3", "x">>
    /\ err.kind = "RateLimitError"
    /\ err.RetryAfter = 0
    /\ err.Count = 0 - 7
    /\ err.Reset = ZeroTime

\* a throttled response whose headers are decimal integers out of the range of
\* int64, next to one that is in range
C3_WitnessOutOfRange ==
    /\ Answered
    /\ exchange.Status = StatusTooManyRequests
    /\ exchange.Headers.RetryAfter = OverMaxInt64
    /\ exchange.Headers.Reset = UnderMinInt64
    /\ exchange.Headers.Count = OverMaxInt64
    /\ exchange.Headers.Limit = <<"3", "0">>
    /\ err.kind = "RateLimitError"
    /\ err.RetryAfter = 0
    /\ err.Reset = ZeroTime
    /\ err.Count = 0
    /\ err.Limit = 30

\* send reached the decoder and the decoder accepted the body
Decoded ==
    /\ Answered
    /\ PassedTransport
    /\ ~SignatureFailed
    /\ exchange.Status # StatusNoContent
    /\ Len(exchange.Body) > 0
    /\ exchange.parse.ok

\* the generic *Error of the first problem the envelope reports
FirstProblemError ==
    [kind |-> "Error",
     Response |-> [ID |-> exchange.Headers.RequestID, Status |-> exchange.Status],
     Title |-> exchange.parse.Errors[1].Title,
     Detail |-> exchange.parse.Errors[1].Detail,
     Code |-> exchange.parse.Errors[1].Code,
     Source |-> exchange.parse.Errors[1].Source.Pointer]

\* C5: under status 403 a decoded envelope with at least one problem gives a
\* NotAuthorizedError (wrapping the first problem) whatever the reported code
\* is, also for the codes the code table maps to another error.
C5_ForbiddenTakesPrecedence ==
    (Decoded /\ exchange.Status = StatusForbidden /\ Len(exchange.parse.Errors) > 0) =>
        /\ err.kind = "NotAuthorizedError"
        /\ err.Err = FirstProblemError

\* a 403 response reporting NOT_FOUND first
C5_Witness ==
    /\ Decoded
    /\ exchange.Status = StatusForbidden
    /\ Len(exchange.parse.Errors) > 0
    /\ exchange.parse.Errors[1].Code = "NOT_FOUND"
    /\ err.kind = "NotAuthorizedError"
    /\ err.Err.Code = "NOT_FOUND"

\* the fixed code table: the sentinel errors, the wrapping errors, the generic one
TableSentinel(code) ==
    CASE code \in {"MACHINE_HEARTBEAT_DEAD", "PROCESS_HEARTBEAT_DEAD"} -> "ErrHeartbeatDead"
      [] code = "FINGERPRINT_TAKEN" -> "ErrMachineAlreadyActivated"
      [] code = "MACHINE_LIMIT_EXCEEDED" -> "ErrMachineLimitExceeded"
      [] code = "PROCESS_LIMIT_EXCEEDED" -> "ErrProcessLimitExceeded"
      [] OTHER -> ""
TableWrapper(code) ==
    CASE code = "TOKEN_INVALID" -> "LicenseTokenError"
      [] code = "LICENSE_INVALID" -> "LicenseKeyError"
      [] code = "NOT_FOUND" -> "NotFoundError"
      [] OTHER -> ""

\* C6: outside status 403 the error of a decoded envelope is decided by the
\* code of its first problem alone, through the fixed code table; a code the
\* table does not list gives the generic *Error with the first problem's title,
\* detail, code and source pointer; an envelope without problems gives nil.
C6_FirstProblemDecides ==
    (Decoded /\ exchange.Status # StatusForbidden) =>
        IF Len(exchange.parse.Errors) = 0 THEN err = NoError
        ELSE LET code == exchange.parse.Errors[1].Code
             IN  IF TableSentinel(code) # "" THEN err = [kind |-> TableSentinel(code)]
                 ELSE IF TableWrapper(code) # ""
                     THEN err = [kind |-> TableWrapper(code), Err |-> FirstProblemError]
                 ELSE err = FirstProblemError

\* an unlisted code first and NOT_FOUND second: the generic error of the first
C6_Witness ==
    /\ Decoded
    /\ exchange.Status = 404
    /\ Len(exchange.parse.Errors) = 2
    /\ exchange.parse.Errors[1].Code = "UNLISTED"
    /\ exchange.parse.Errors[2].Code = "NOT_FOUND"
    /\ err.kind = "Error"
    /\ err.Code = "UNLISTED"
    /\ err.Title = <<"title", "UNLISTED">>

\* C7: a response that passed the transport tier and whose signature check did
\* not fail (or with no public key configured) and that has status 204 or an
\* empty body makes send return a nil error without calling the decoder, with
\* Response.Document nil and the model untouched.
C7_EmptyBodyShortCircuit ==
    (/\ Answered
     /\ PassedTransport
     /\ ~SignatureFailed
     /\ (exchange.Status = StatusNoContent \/ Len(exchange.Body) = 0)) =>
        /\ err = NoError
        /\ ~Invoked("Unmarshal")
        /\ response # Nil
        /\ response.Document = Nil
        /\ model = Nil

\* a 204 with a body that would decode to data and problems
C7_Witness ==
    /\ Answered
    /\ exchange.Status = StatusNoContent
    /\ Len(exchange.Body) > 0
    /\ exchange.parse.ok
    /\ exchange.parse.data = SomeData
    /\ Len(exchange.parse.Errors) > 0
    /\ err = NoError

\* a 404 with an empty body
C7_WitnessEmpty404 ==
    /\ Answered
    /\ exchange.Status = 404
    /\ Len(exchange.Body) = 0
    /\ PublicKey = "pk"
    /\ err = NoError

(***************************************************************************)
(* Properties of Response.tldr, on the preview in the server error.        *)
(***************************************************************************)
\* a response with status >= 500, whose error carries the preview of the body
ServerFault == Answered /\ exchange.Status >= StatusInternalServerError

\* the prefix of the body the preview retains, and its line feeds
Retained ==
    IF Len(exchange.Body) > TldrCap THEN SubSeq(exchange.Body, 1, TldrCap) ELSE exchange.Body
LineFeeds(s, n) == Cardinality({j \in 1..n : s[j] = LF})

\* C8 as claimed: the preview in the server error is at most 500 characters long.
C8_PreviewAtMostCap ==
    ServerFault => Len(err.Body) <= TldrCap

\* C8 as amended: the preview retains at most the first 500 bytes of the body;
\* its length is the length of the retained prefix, plus one for each line feed
\* in it, plus three for the "..." of a truncated body, so at most 1003.
C8_PreviewLength ==
    ServerFault =>
        /\ Len(Retained) <= TldrCap
        /\ Len(err.Body) = Len(Retained) + LineFeeds(Retained, Len(Retained))
                           + (IF Len(exchange.Body) > TldrCap THEN Len(Ellipsis) ELSE 0)
        /\ Len(err.Body) <= 2 * TldrCap + Len(Ellipsis)

\* a body longer than the cap made of line feeds only: the longest preview
C8_Witness ==
    /\ ServerFault
    /\ Len(exchange.Body) > TldrCap
    /\ \A i \in 1..Len(exchange.Body) : exchange.Body[i] = LF
    /\ Len(err.Body) = 2 * TldrCap + Len(Ellipsis)

\* where byte i of the retained prefix lands in the preview
Landing(i) == i + LineFeeds(Retained, i - 1)

\* C9: the preview has no line feed; each line feed of the retained prefix of
\* the body is replaced by backslash, n and every other byte is kept, in order.
C9_PreviewIsSingleLine ==
    ServerFault =>
        /\ \A k \in 1..Len(err.Body) : err.Body[k] # LF
        /\ \A i \in 1..Len(Retained) :
              IF Retained[i] = LF
              THEN err.Body[Landing(i)] = "\\" /\ err.Body[Landing(i) + 1] = "n"
              ELSE err.Body[Landing(i)] = Retained[i]
        /\ Len(err.Body) >= Len(Retained) + LineFeeds(Retained, Len(Retained))

\* a body longer than the cap with line feeds, backslashes and the letter n
C9_Witness ==
    /\ ServerFault
    /\ Len(exchange.Body) > TldrCap
    /\ LineFeeds(Retained, Len(Retained)) > 1
    /\ \E i \in 1..Len(Retained) : Retained[i] = "\\"
    /\ \E i \in 1..Len(Retained) : Retained[i] = "n"
    /\ \A k \in 1..Len(err.Body) : err.Body[k] # LF

(***************************************************************************)
(* Properties of License.Validate and License.Verify.                      *)
(***************************************************************************)
\* a call of License.Validate whose validate request succeeded
Exchanged ==
    /\ op \in {"Validate", "Validate_part000"}
    /\ send(NewClient, exchange, ZeroValidation).err = NoError

\* the validation-result table: the error kind of each listed code
ResultTable(code) ==
    CASE code = "VALID" -> "nil"
      [] code \in {"NO_MACHINES", "NO_MACHINE", "FINGERPRINT_SCOPE_MISMATCH"} -> "ErrLicenseNotActivated"
      [] code = "EXPIRED" -> "ErrLicenseExpired"
      [] code = "SUSPENDED" -> "ErrLicenseSuspended"
      [] code = "TOO_MANY_MACHINES" -> "ErrLicenseTooManyMachines"
      [] code = "TOO_MANY_CORES" -> "ErrLicenseTooManyCores"
      [] code = "TOO_MANY_PROCESSES" ->
            IF op = "Validate_part000" THEN "ErrLicenseInvalid" ELSE "ErrLicenseTooManyProcesses"
      [] code \in {"FINGERPRINT_SCOPE_REQUIRED", "FINGERPRINT_SCOPE_EMPTY"} -> "ErrValidationFingerprintMissing"
      [] code = "HEARTBEAT_NOT_STARTED" -> "ErrHeartbeatRequired"
      [] code = "HEARTBEAT_DEAD" -> "ErrHeartbeatDead"
      [] code \in {"PRODUCT_SCOPE_REQUIRED", "PRODUCT_SCOPE_EMPTY"} -> "ErrValidationProductMissing"
      [] OTHER -> "ErrLicenseInvalid"

\* C4: after a successful exchange License.Validate returns nil exactly when
\* the result code is VALID, and otherwise the one error the table gives for
\* the code: ErrLicenseNotActivated for NO_MACHINES, NO_MACHINE and
\* FINGERPRINT_SCOPE_MISMATCH, ErrLicenseExpired for EXPIRED, and
\* ErrLicenseInvalid for every code that is not listed, the empty one included.
C4_ValidationTableIsTotal ==
    Exchanged =>
        /\ err = [kind |-> ResultTable(model.Result.Code)]
        /\ err = NoError <=> model.Result.Code = "VALID"
        /\ model.Result.Code \notin ListedValidationCodes => err = ErrLicenseInvalid

\* an EXPIRED result
C4_Witness ==
    /\ Exchanged
    /\ op = "Validate"
    /\ model.Result.Code = "EXPIRED"
    /\ err = ErrLicenseExpired

\* a success without a decoded value: the empty code
C4_WitnessEmptyCode ==
    /\ Exchanged
    /\ exchange.Status = StatusNoContent
    /\ model.Result.Code = ""
    /\ err = ErrLicenseInvalid

\* C10: License.Verify on a license with an empty Scheme returns a nil payload
\* and ErrLicenseNotSigned without consulting the verifier, whatever the Key
\* and the PublicKey are; with a Scheme it consults the verifier and returns
\* exactly the verifier's payload and error.
C10_UnsignedLicenseHasNoPayload ==
    op = "Verify" =>
        IF license.Scheme = ""
        THEN payload = Nil /\ err = ErrLicenseNotSigned /\ calls = <<>>
        ELSE /\ calls = <<"VerifyLicense">>
             /\ payload = VerifyLicense(PublicKey, license).payload
             /\ err = VerifyLicense(PublicKey, license).err

\* a license without a Scheme whose key the verifier would accept
C10_Witness ==
    /\ op = "Verify"
    /\ license.Scheme = ""
    /\ PublicKey = "pk"
    /\ Genuine(license.Key)
    /\ payload = Nil
    /\ err = ErrLicenseNotSigned

\* a signed license whose key the verifier accepts
C10_WitnessSigned ==
    /\ op = "Verify"
    /\ license.Scheme = SchemeCodeEd25519
    /\ PublicKey = "pk"
    /\ payload # Nil
    /\ err = NoError

\* what the validate request decoded into the validation: the data of the body
\* when the decoder was reached and the document carries data, and otherwise
\* nothing, the validation staying zero-valued
NothingDecoded ==
    \/ exchange.Status = StatusNoContent
    \/ Len(exchange.Body) = 0
    \/ exchange.parse.data = Nil
Returned == IF NothingDecoded THEN ZeroValidation ELSE exchange.parse.data

\* C11: whenever the validate request of License.Validate completes without a
\* request error, the receiver is the license of the response, field for field,
\* and (src/license.go) its LastValidation is the returned result, whatever the
\* result code is and whatever error Validate then returns; when nothing was
\* decoded the receiver is zero-valued with an empty code and the error is
\* ErrLicenseInvalid.
C11_ValidateStoresBeforeInterpreting ==
    Exchanged =>
        /\ license.ID = Returned.License.ID
        /\ license.Name = Returned.License.Name
        /\ license.Key = Returned.License.Key
        /\ license.Scheme = Returned.License.Scheme
        /\ op = "Validate" => license.LastValidation = Returned.Result
        /\ op = "Validate_part000" => license.LastValidation = Nil
        /\ NothingDecoded =>
              /\ license.ID = "" /\ license.Name = "" /\ license.Key = ""
              /\ license.Scheme = ""
              /\ op = "Validate" => license.LastValidation = [Code |-> ""]
              /\ err = ErrLicenseInvalid

\* an EXPIRED result: Validate returns ErrLicenseExpired and the receiver is
\* the renamed license of the response with the result stored
C11_Witness ==
    /\ Exchanged
    /\ op = "Validate"
    /\ exchange.parse.data # Nil
    /\ exchange.parse.data.Result.Code = "EXPIRED"
    /\ exchange.parse.data.License.Name = "renamed"
    /\ err = ErrLicenseExpired
    /\ license.Name = "renamed"
    /\ license.Key = "genuine/2"
    /\ license.LastValidation = [Code |-> "EXPIRED"]

\* a 204: the receiver is zero-valued with an empty code
C11_WitnessNoValue ==
    /\ Exchanged
    /\ op = "Validate"
    /\ exchange.Status = StatusNoContent
    /\ license.ID = ""
    /\ license.LastValidation = [Code |-> ""]
    /\ err = ErrLicenseInvalid

\* the error Client.send hands License.Validate for the exchange x under the key pk
RequestErr(pk, x) == send([PublicKey |-> pk], x, ZeroValidation).err

\* a call of License.Validate whose validate request failed
RequestFailed ==
    /\ op \in {"Validate", "Validate_part000"}
    /\ RequestErr(PublicKey, exchange) # NoError

\* C12: a step of License.Validate whose validate request fails leaves every
\* field of the receiver as it was and returns the error of the request as it
\* is, except that a *NotFoundError becomes ErrLicenseInvalid.
C12_FailedRequestLeavesLicense ==
    [][(/\ op = "idle"
        /\ op' \in {"Validate", "Validate_part000"}
        /\ RequestErr(PublicKey', exchange') # NoError) =>
           /\ license' = license
           /\ err' = IF RequestErr(PublicKey', exchange').kind = "NotFoundError"
                     THEN ErrLicenseInvalid
                     ELSE RequestErr(PublicKey', exchange')
           /\ RequestErr(PublicKey', exchange').kind \in
                 {"RequestError", "RateLimitError", "errorString", "ErrSignatureMalformed",
                  "ErrSignatureMismatch", "NotAuthorizedError", "DecodeError", "Error",
                  "NotFoundError"}]_vars

\* a rate-limited validate request on a license validated before: the error
\* reaches the caller and the stored validation is still there
C12_Witness ==
    /\ RequestFailed
    /\ op = "Validate"
    /\ err.kind = "RateLimitError"
    /\ license.ID = "lic-1"
    /\ license.LastValidation = [Code |-> "EXPIRED"]

\* a NOT_FOUND problem: the caller gets ErrLicenseInvalid
C12_WitnessNotFound ==
    /\ RequestFailed
    /\ exchange.Status = 404
    /\ RequestErr(PublicKey, exchange).kind = "NotFoundError"
    /\ err = ErrLicenseInvalid
    /\ license.ID = "lic-1"

\* the other errors of the request reach the caller: server, signature,
\* not-authorized, decode, generic remote
C12_WitnessServer == RequestFailed /\ err.kind = "errorString" /\ license.ID = "lic-1"
C12_WitnessSignature == RequestFailed /\ err = ErrSignatureMismatch /\ license.ID = "lic-1"
C12_WitnessNotAuthorized == RequestFailed /\ err.kind = "NotAuthorizedError" /\ license.ID = "lic-1"
C12_WitnessDecode == RequestFailed /\ err = DecodeError /\ license.ID = "lic-1"
\* a failed request on a receiver that a call of SetID had given another id
C12_WitnessAfterSetID == RequestFailed /\ err.kind = "RateLimitError" /\ license.ID = "lic-2"
C12_WitnessGeneric == RequestFailed /\ err.kind = "Error" /\ err.Code = "UNLISTED" /\ license.ID = "lic-1"

====
